---- MODULE Spec2Model ----
(***************************************************************************)
(* The Hugging Face proxy service of app.py: the POST /transcribe handler  *)
(* (transcribe_audio) with its file checks, credential resolution, the     *)
(* single outbound POST, the normalisation of the upstream answer and the  *)
(* mapping of failures to HTTP statuses.                                   *)
(*                                                                         *)
(* Python strings are sequences of one-character strings, so that suffix,  *)
(* prefix and substring questions are decided by the model.  An optional   *)
(* string (None or a str) is a record [some, v].                           *)
(***************************************************************************)
EXTENDS Integers, Sequences, FiniteSets, TLC

VARIABLES HF_TOKEN, extOrder, pc, req, outbound, up, resp

vars == <<HF_TOKEN, extOrder, pc, req, outbound, up, resp>>

(***************************************************************************)
(* Bounds of the model.                                                    *)
(***************************************************************************)
\* Longest generated upload filename (the sample names below are longer).
MaxNameLen == 4

\* Number of hash seeds whose iteration order the seeded specification takes.
MaxSeeds == 2

(***************************************************************************)
(* Strings.                                                                *)
(***************************************************************************)
None == [some |-> FALSE, v |-> <<>>]

Some(s) == [some |-> TRUE, v |-> s]

\* Python truthiness of an optional string: None and '' are falsy.
Truthy(o) == o.some /\ o.v # <<>>

\* a or b
PyOr(a, b) == IF Truthy(a) THEN a ELSE b

Uppers == <<"A","B","C","D","E","F","G","H","I","J","K","L","M",
            "N","O","P","Q","R","S","T","U","V","W","X","Y","Z">>

Lowers == <<"a","b","c","d","e","f","g","h","i","j","k","l","m",
            "n","o","p","q","r","s","t","u","v","w","x","y","z">>

LowerChar(c) ==
  IF \E i \in DOMAIN Uppers : Uppers[i] = c
  THEN Lowers[CHOOSE i \in DOMAIN Uppers : Uppers[i] = c]
  ELSE c

\* str.lower()
lower(s) == [i \in 1..Len(s) |-> LowerChar(s[i])]

\* c in s, for a one-character c
HasChar(c, s) == \E i \in 1..Len(s) : s[i] = c

\* s.rsplit(c, 1): split once at the last c; one piece when s has no c.
rsplit1(s, c) ==
  IF HasChar(c, s)
  THEN LET k == CHOOSE i \in 1..Len(s) :
                  s[i] = c /\ \A j \in (i+1)..Len(s) : s[j] # c
       IN  <<SubSeq(s, 1, k-1), SubSeq(s, k+1, Len(s))>>
  ELSE <<s>>

RECURSIVE Join(_, _)
\* sep.join(parts)
Join(sep, parts) ==
  IF parts = <<>> THEN <<>>
  ELSE IF Len(parts) = 1 THEN parts[1]
  ELSE parts[1] \o sep \o Join(sep, Tail(parts))

Digit == <<"0","1","2","3","4","5","6","7","8","9">>

RECURSIVE NatStr(_)
NatStr(n) == IF n < 10 THEN <<Digit[n+1]>> ELSE NatStr(n \div 10) \o <<Digit[(n % 10) + 1]>>

\* str(n) of an int
IntStr(n) == IF n < 0 THEN <<"-">> \o NatStr(-n) ELSE NatStr(n)

(***************************************************************************)
(* Decoded JSON values (what response.json() returns).                     *)
(***************************************************************************)
JStr(s) == [k |-> "str", s |-> s, n |-> 0, b |-> FALSE]

JNum(n) == [k |-> "int", s |-> <<>>, n |-> n, b |-> FALSE]

JBool(b) == [k |-> "bool", s |-> <<>>, n |-> 0, b |-> b]

JNull == [k |-> "None", s |-> <<>>, n |-> 0, b |-> FALSE]

\* a dict: a function from its keys to their values
JDict(d) == [k |-> "dict", d |-> d]

JList(items) == [k |-> "list", items |-> items]

EmptyDict == [x \in {} |-> JNull]

\* isinstance(v, dict)
IsDict(v) == v.k = "dict"

\* isinstance(v, list)
IsList(v) == v.k = "list"

\* v.get(key, default) of a dict
DictGet(v, key, default) == IF key \in DOMAIN v.d THEN v.d[key] ELSE default

\* str(v) of a decoded value that is not a dict (lists: the empty one only)
PyStr(v) ==
  CASE v.k = "str"  -> v.s
    [] v.k = "int"  -> IntStr(v.n)
    [] v.k = "bool" -> IF v.b THEN <<"T","r","u","e">> ELSE <<"F","a","l","s","e">>
    [] v.k = "None" -> <<"N","o","n","e">>
    [] v.k = "list" /\ v.items = <<>> -> <<"[","]">>

(***************************************************************************)
(* Module-level configuration, lines 22-28.                                *)
(***************************************************************************)
ALLOWED_EXTENSIONS ==
  { <<"m","p","3">>, <<"w","a","v">>, <<"m","p","4">>, <<"m","4","a">>,
    <<"f","l","a","c">>, <<"o","g","g">>, <<"w","e","b","m">> }


\* Variant: the suffix compared without lower().
allowed_file_CaseSensitive(filename) ==
  /\ HasChar(".", filename)
  /\ rsplit1(filename, ".")[2] \in ALLOWED_EXTENSIONS

allowed_file(filename) ==
  /\ HasChar(".", filename)
  /\ lower(rsplit1(filename, ".")[2]) \in ALLOWED_EXTENSIONS

(***************************************************************************)
(* Fixed texts of the handler.                                             *)
(***************************************************************************)
\* 'No audio file provided. Send as multipart/form-data with field name "audio"'
NoAudioMsg ==
  <<"N","o"," ","a","u","d","i","o"," ","f","i","l","e"," ","p","r","o","v","i","d","e","d","."," ","S","e","n","d"," ","a","s"," ","m","u","l","t","i","p","a","r","t","/","f","o","r","m","-","d","a","t","a"," ","w","i","t","h"," ","f","i","e","l","d"," ","n","a","m","e"," ","\"","a","u","d","i","o","\"">>

\* 'No file selected'
NoFileMsg == <<"N","o"," ","f","i","l","e"," ","s","e","l","e","c","t","e","d">>

\* 'File type not supported. Allowed: ' followed by the joined extensions
FileTypePrefix ==
  <<"F","i","l","e"," ","t","y","p","e"," ","n","o","t"," ","s","u","p","p","o","r","t","e","d","."," ","A","l","l","o","w","e","d",":"," ">>

FileTypeMsg(order) == FileTypePrefix \o Join(<<",", " ">>, order)

\* 'Hugging Face token required. Set HF_TOKEN environment variable or pass
\* hf_token in form data'
TokenRequiredMsg ==
  <<"H","u","g","g","i","n","g"," ","F","a","c","e"," ","t","o","k","e","n"," ","r","e","q","u","i","r","e","d","."," ","S","e","t"," ","H","F","_","T","O","K","E","N"," ","e","n","v","i","r","o","n","m","e","n","t"," ","v","a","r","i","a","b","l","e"," ","o","r"," ","p","a","s","s"," ","h","f","_","t","o","k","e","n"," ","i","n"," ","f","o","r","m"," ","d","a","t","a">>

\* 'Invalid Hugging Face token'
InvalidTokenMsg == <<"I","n","v","a","l","i","d"," ","H","u","g","g","i","n","g"," ","F","a","c","e"," ","t","o","k","e","n">>

\* 'Model is loading, please try again in a few seconds'
ModelLoadingMsg ==
  <<"M","o","d","e","l"," ","i","s"," ","l","o","a","d","i","n","g",","," ","p","l","e","a","s","e"," ","t","r","y"," ","a","g","a","i","n"," ","i","n"," ","a"," ","f","e","w"," ","s","e","c","o","n","d","s">>

\* f"Bearer {token}"
Bearer(token) == <<"B","e","a","r","e","r"," ">> \o token

(***************************************************************************)
(* Responses: the HTTP status and the keys of the JSON body.               *)
(***************************************************************************)
NoResp ==
  [status |-> 0, keys |-> {}, success |-> FALSE, text |-> JNull,
   error |-> <<>>, status_code |-> 0]


\* Variant: the failure body also carries an empty 'text'.
Failure_WithText(status, msg, extra) ==
  [status |-> status, keys |-> {"success", "error", "text"} \cup extra,
   success |-> FALSE, text |-> JStr(<<>>), error |-> msg,
   status_code |-> IF "status_code" \in extra THEN status ELSE 0]

\* jsonify({'success': False, 'error': msg, ...extra}), status
Failure(status, msg, extra) ==
  [status |-> status, keys |-> {"success", "error"} \cup extra, success |-> FALSE,
   text |-> JNull, error |-> msg,
   status_code |-> IF "status_code" \in extra THEN status ELSE 0]

\* jsonify({'success': True, 'text': text, 'model': ..., ...}): Flask's default 200
Success(text) ==
  [status |-> 200,
   keys |-> {"success", "text", "model", "backend", "platform", "cost"},
   success |-> TRUE, text |-> text, error |-> <<>>, status_code |-> 0]


\* Variant: the request's token wins over the configured one.
ResolveToken_FormFirst(env, form) == PyOr(form, env)

\* token = HF_TOKEN or request.form.get('hf_token')
ResolveToken(env, form) == PyOr(env, form)


\* Variant: the credential is checked before the extension.
Validate_TokenFirst(r, env, order) ==
  IF ~r.audio.some THEN Failure(400, NoAudioMsg, {})
  ELSE IF r.audio.v = <<>> THEN Failure(400, NoFileMsg, {})
  ELSE IF ~Truthy(ResolveToken(env, r.hf_token))
       THEN Failure(400, TokenRequiredMsg, {"get_token"})
  ELSE IF ~allowed_file(r.audio.v) THEN Failure(400, FileTypeMsg(order), {})
  ELSE NoResp

\* The checks of lines 66-94 in their order: the rejection, or NoResp when the
\* request passes all of them.
Validate(r, env, order) ==
  IF ~r.audio.some THEN Failure(400, NoAudioMsg, {})
  ELSE IF r.audio.v = <<>> THEN Failure(400, NoFileMsg, {})
  ELSE IF ~allowed_file(r.audio.v) THEN Failure(400, FileTypeMsg(order), {})
  ELSE IF ~Truthy(ResolveToken(env, r.hf_token))
       THEN Failure(400, TokenRequiredMsg, {"get_token"})
  ELSE NoResp


\* Variant: a generic text instead of str(e).
OnException_Generic(msg) == Failure(500, <<"I","n","t","e","r","n","a","l"," ","s","e","r","v","e","r"," ","e","r","r","o","r">>, {})

\* except Exception as e: ... str(e) ..., 500
OnException(msg) == Failure(500, msg, {})


\* Variant: only the object shape is read.
Normalize_DictOnly(result) ==
  IF IsDict(result) THEN DictGet(result, "text", JStr(<<>>)) ELSE JStr(<<>>)

\* The 'Handle different response formats' block, lines 116-120.
Normalize(result) ==
  IF IsDict(result) THEN DictGet(result, "text", JStr(<<>>))
  ELSE IF IsList(result) /\ Len(result.items) > 0
       THEN IF IsDict(result.items[1])
            THEN DictGet(result.items[1], "text", JStr(<<>>))
            ELSE JStr(PyStr(result.items[1]))
  ELSE JStr(<<>>)


\* Variant: 503 is passed through like any other status.
UpstreamError_No503(status, body) ==
  LET error_msg == IF status = 401 THEN InvalidTokenMsg ELSE body.raw
  IN  Failure(status, error_msg, {"status_code"})

\* Variant: the upstream body is passed through for 401 too.
UpstreamError_No401(status, body) ==
  LET error_msg == IF status = 503 THEN ModelLoadingMsg ELSE body.raw
  IN  Failure(status, error_msg, {"status_code"})

\* The else branch of lines 130-142.
UpstreamError(status, body) ==
  LET error_msg == IF status = 401 THEN InvalidTokenMsg
                   ELSE IF status = 503 THEN ModelLoadingMsg
                   ELSE body.raw
  IN  Failure(status, error_msg, {"status_code"})

\* Lines 111-142 and the except clause for a body that is not JSON.
OnReply(status, body) ==
  IF status = 200
  THEN IF body.ok THEN Success(Normalize(body.val)) ELSE OnException(body.err)
  ELSE UpstreamError(status, body)

(***************************************************************************)
(* Inputs.                                                                 *)
(***************************************************************************)
NameChars == {".", "o", "O", "g"}

\* 'clip.mp3', 'CLIP.MP3', 'a.tar.wav', 'notes.txt', 'song.Flac', 'mp3',
\* 'wav.txt', 'a.b', 'x.webm', 'v.m4a.', 'r.MP4'
SampleNames ==
  { <<"c","l","i","p",".","m","p","3">>,
    <<"C","L","I","P",".","M","P","3">>,
    <<"a",".","t","a","r",".","w","a","v">>,
    <<"n","o","t","e","s",".","t","x","t">>,
    <<"s","o","n","g",".","F","l","a","c">>,
    <<"m","p","3">>,
    <<"w","a","v",".","t","x","t">>,
    <<"a",".","b">>,
    <<"x",".","w","e","b","m">>,
    <<"v",".","m","4","a",".">>,
    <<"r",".","M","P","4">> }

FileNames ==
  SampleNames \cup UNION { [1..n -> NameChars] : n \in 0..MaxNameLen }

\* 'hf_E', 'hf_F', 'token', 'a'
EnvTokens == { None, Some(<<>>), Some(<<"h","f","_","E">>) }

FormTokens ==
  { None, Some(<<>>), Some(<<"h","f","_","F">>), Some(<<"t","o","k","e","n">>) }

RECURSIVE Perms(_)
\* All orderings of a finite set, as sequences.
Perms(S) ==
  IF S = {} THEN {<<>>}
  ELSE UNION { { <<x>> \o p : p \in Perms(S \ {x}) } : x \in S }

\* Iteration orders of the ALLOWED_EXTENSIONS set: the order is decided by the
\* process's string hash seed and is fixed for the life of the process; every
\* ordering of the seven elements can come out.
ExtOrders == Perms(ALLOWED_EXTENSIONS)

\* The orders CPython 3.11 produces under the first hash seeds.
SeedOrders ==
  <<
    \* PYTHONHASHSEED=0: mp4, flac, wav, ogg, webm, m4a, mp3
    <<<<"m","p","4">>, <<"f","l","a","c">>, <<"w","a","v">>, <<"o","g","g">>, <<"w","e","b","m">>, <<"m","4","a">>, <<"m","p","3">>>>,
    \* PYTHONHASHSEED=1: flac, m4a, wav, ogg, mp3, mp4, webm
    <<<<"f","l","a","c">>, <<"m","4","a">>, <<"w","a","v">>, <<"o","g","g">>, <<"m","p","3">>, <<"m","p","4">>, <<"w","e","b","m">>>>,
    \* PYTHONHASHSEED=2: ogg, mp4, wav, webm, m4a, mp3, flac
    <<<<"o","g","g">>, <<"m","p","4">>, <<"w","a","v">>, <<"w","e","b","m">>, <<"m","4","a">>, <<"m","p","3">>, <<"f","l","a","c">>>>,
    \* PYTHONHASHSEED=3: wav, flac, mp4, m4a, mp3, webm, ogg
    <<<<"w","a","v">>, <<"f","l","a","c">>, <<"m","p","4">>, <<"m","4","a">>, <<"m","p","3">>, <<"w","e","b","m">>, <<"o","g","g">>>>,
    \* PYTHONHASHSEED=4: mp3, webm, ogg, m4a, flac, wav, mp4
    <<<<"m","p","3">>, <<"w","e","b","m">>, <<"o","g","g">>, <<"m","4","a">>, <<"f","l","a","c">>, <<"w","a","v">>, <<"m","p","4">>>>,
    \* PYTHONHASHSEED=5: ogg, flac, mp3, webm, mp4, m4a, wav
    <<<<"o","g","g">>, <<"f","l","a","c">>, <<"m","p","3">>, <<"w","e","b","m">>, <<"m","p","4">>, <<"m","4","a">>, <<"w","a","v">>>>
  >>

\* The orders of the first MaxSeeds hash seeds.
SeedOrderSet ==
  { SeedOrders[i] : i \in { j \in DOMAIN SeedOrders : j <= MaxSeeds } }

\* Status codes the upstream answers with.
Statuses == {200, 201, 204, 304, 400, 401, 403, 404, 429, 500, 503}

\* Upstream bodies: response.text, whether response.json() decodes it, the
\* decoded value, and the decoder's message when it does not.
Bodies ==
  {
    [raw |-> <<"{","\"","t","e","x","t","\"",":","\"","h","e","l","l","o","\"","}">>,
     ok |-> TRUE, val |-> JDict(("text" :> JStr(<<"h","e","l","l","o">>))), err |-> <<>>],
    [raw |-> <<"[","{","\"","t","e","x","t","\"",":","\"","h","i","\"","}","]">>,
     ok |-> TRUE, val |-> JList(<<JDict(("text" :> JStr(<<"h","i">>)))>>), err |-> <<>>],
    [raw |-> <<"[","\"","r","a","w","\"","]">>,
     ok |-> TRUE, val |-> JList(<<JStr(<<"r","a","w">>)>>), err |-> <<>>],
    [raw |-> <<"{","}">>,
     ok |-> TRUE, val |-> JDict(EmptyDict), err |-> <<>>],
    [raw |-> <<"[","]">>,
     ok |-> TRUE, val |-> JList(<<>>), err |-> <<>>],
    [raw |-> <<"{","\"","e","r","r","o","r","\"",":","\"","x","\"","}">>,
     ok |-> TRUE, val |-> JDict(("error" :> JStr(<<"x">>))), err |-> <<>>],
    [raw |-> <<"[","{","\"","e","r","r","o","r","\"",":","\"","x","\"","}","]">>,
     ok |-> TRUE, val |-> JList(<<JDict(("error" :> JStr(<<"x">>)))>>), err |-> <<>>],
    [raw |-> <<"\"","b","a","r","e","\"">>,
     ok |-> TRUE, val |-> JStr(<<"b","a","r","e">>), err |-> <<>>],
    [raw |-> <<"5">>,
     ok |-> TRUE, val |-> JNum(5), err |-> <<>>],
    [raw |-> <<"n","u","l","l">>,
     ok |-> TRUE, val |-> JNull, err |-> <<>>],
    [raw |-> <<"[","5","]">>,
     ok |-> TRUE, val |-> JList(<<JNum(5)>>), err |-> <<>>],
    [raw |-> <<"[","-","1","2","]">>,
     ok |-> TRUE, val |-> JList(<<JNum(-12)>>), err |-> <<>>],
    [raw |-> <<"[","n","u","l","l","]">>,
     ok |-> TRUE, val |-> JList(<<JNull>>), err |-> <<>>],
    [raw |-> <<"[","t","r","u","e","]">>,
     ok |-> TRUE, val |-> JList(<<JBool(TRUE)>>), err |-> <<>>],
    [raw |-> <<"[","[","]","]">>,
     ok |-> TRUE, val |-> JList(<<JList(<<>>)>>), err |-> <<>>],
    [raw |-> <<"{","\"","t","e","x","t","\"",":","n","u","l","l","}">>,
     ok |-> TRUE, val |-> JDict(("text" :> JNull)), err |-> <<>>],
    [raw |-> <<"{","\"","t","e","x","t","\"",":","7","}">>,
     ok |-> TRUE, val |-> JDict(("text" :> JNum(7))), err |-> <<>>],
    [raw |-> <<"{","\"","t","e","x","t","\"",":","\"","\"","}">>,
     ok |-> TRUE, val |-> JDict(("text" :> JStr(<<>>))), err |-> <<>>],
    [raw |-> <<"[","{","\"","t","e","x","t","\"",":","\"","a","\"","}",",","{","\"","t","e","x","t","\"",":","\"","b","\"","}","]">>,
     ok |-> TRUE, val |-> JList(<<JDict(("text" :> JStr(<<"a">>))), JDict(("text" :> JStr(<<"b">>)))>>), err |-> <<>>],
    [raw |-> <<"[","\"","a","\"",",","{","\"","t","e","x","t","\"",":","\"","b","\"","}","]">>,
     ok |-> TRUE, val |-> JList(<<JStr(<<"a">>), JDict(("text" :> JStr(<<"b">>)))>>), err |-> <<>>],
    [raw |-> <<"[","{","}",",","\"","z","\"","]">>,
     ok |-> TRUE, val |-> JList(<<JDict(EmptyDict), JStr(<<"z">>)>>), err |-> <<>>],
    [raw |-> <<>>,
     ok |-> FALSE, val |-> JNull, err |-> <<"E","x","p","e","c","t","i","n","g"," ","v","a","l","u","e",":"," ","l","i","n","e"," ","1"," ","c","o","l","u","m","n"," ","1"," ","(","c","h","a","r"," ","0",")">>],
    [raw |-> <<"<","h","t","m","l",">">>,
     ok |-> FALSE, val |-> JNull, err |-> <<"E","x","p","e","c","t","i","n","g"," ","v","a","l","u","e",":"," ","l","i","n","e"," ","1"," ","c","o","l","u","m","n"," ","1"," ","(","c","h","a","r"," ","0",")">>],
    [raw |-> <<"{","\"","t","e","x","t","\"",":">>,
     ok |-> FALSE, val |-> JNull, err |-> <<"E","x","p","e","c","t","i","n","g"," ","v","a","l","u","e",":"," ","l","i","n","e"," ","1"," ","c","o","l","u","m","n"," ","9"," ","(","c","h","a","r"," ","8",")">>]
  }

\* A body that repeats the Authorization header it was sent.
EchoBody(auth) ==
  [raw |-> <<"d","e","n","i","e","d",":"," ">> \o auth, ok |-> FALSE, val |-> JNull,
   err |-> <<"E","x","p","e","c","t","i","n","g"," ","v","a","l","u","e",":"," ","l","i","n","e"," ","1"," ","c","o","l","u","m","n"," ","1"," ","(","c","h","a","r"," ","0",")">>]

\* str(e) of what requests.post raises: a read timeout, a connection error,
\* an exception without a message.
PostExceptions ==
  { <<"H","T","T","P","S","C","o","n","n","e","c","t","i","o","n","P","o","o","l","(","h","o","s","t","=","'","a","p","i","-","i","n","f","e","r","e","n","c","e",".","h","u","g","g","i","n","g","f","a","c","e",".","c","o","'",","," ","p","o","r","t","=","4","4","3",")",":"," ","R","e","a","d"," ","t","i","m","e","d"," ","o","u","t","."," ","(","r","e","a","d"," ","t","i","m","e","o","u","t","=","3","0",")">>,
    <<"C","o","n","n","e","c","t","i","o","n"," ","a","b","o","r","t","e","d",".">>,
    <<>> }

NoReq == [audio |-> None, hf_token |-> None]

NoUp == [kind |-> "none", status |-> 0, body |-> EchoBody(<<>>), exc |-> <<>>]

(***************************************************************************)
(* The state machine.                                                      *)
(***************************************************************************)
Init ==
  /\ HF_TOKEN \in EnvTokens
  /\ extOrder \in ExtOrders
  /\ pc = "idle"
  /\ req = NoReq
  /\ outbound = <<>>
  /\ up = NoUp
  /\ resp = NoResp

\* A POST /transcribe arrives: with or without an 'audio' file, with or
\* without an hf_token form field.
Receive(audio, form) ==
  /\ pc = "idle"
  /\ pc' = "handling"
  /\ req' = [audio |-> audio, hf_token |-> form]
  /\ outbound' = <<>>
  /\ up' = NoUp
  /\ resp' = NoResp
  /\ UNCHANGED <<HF_TOKEN, extOrder>>

\* Lines 66-109: the checks, then the outbound POST with the bearer header.
Handle ==
  /\ pc = "handling"
  /\ LET rejection == Validate(req, HF_TOKEN, extOrder)
     IN  IF rejection # NoResp
         THEN /\ resp' = rejection
              /\ pc' = "done"
              /\ UNCHANGED outbound
         ELSE /\ outbound' = Append(outbound,
                   [auth |-> Bearer(ResolveToken(HF_TOKEN, req.hf_token).v)])
              /\ pc' = "posting"
              /\ UNCHANGED resp
  /\ UNCHANGED <<HF_TOKEN, extOrder, req, up>>

\* requests.post returns: lines 111-142.
Reply(status, body) ==
  /\ pc = "posting"
  /\ up' = [kind |-> "reply", status |-> status, body |-> body, exc |-> <<>>]
  /\ resp' = OnReply(status, body)
  /\ pc' = "done"
  /\ UNCHANGED <<HF_TOKEN, extOrder, req, outbound>>


\* Variant: a failed call is attempted once more.
Raise_Retry(msg) ==
  /\ pc = "posting"
  /\ IF Len(outbound) < 2
     THEN /\ outbound' = Append(outbound, outbound[1])
          /\ UNCHANGED <<pc, up, resp>>
     ELSE /\ up' = [kind |-> "raise", status |-> 0, body |-> EchoBody(<<>>), exc |-> msg]
          /\ resp' = Failure(500, msg, {})
          /\ pc' = "done"
          /\ UNCHANGED outbound
  /\ UNCHANGED <<HF_TOKEN, extOrder, req>>

\* requests.post raises (timeout=30 elapsed, connection failure): lines 144-149.
Raise(msg) ==
  /\ pc = "posting"
  /\ up' = [kind |-> "raise", status |-> 0, body |-> EchoBody(<<>>), exc |-> msg]
  /\ resp' = OnException(msg)
  /\ pc' = "done"
  /\ UNCHANGED <<HF_TOKEN, extOrder, req, outbound>>

\* The response is sent; the worker takes the next request.
Finish ==
  /\ pc = "done"
  /\ pc' = "idle"
  /\ req' = NoReq
  /\ outbound' = <<>>
  /\ up' = NoUp
  /\ resp' = NoResp
  /\ UNCHANGED <<HF_TOKEN, extOrder>>

\* What the upstream can answer the call in flight with.
ReplyBodies ==
  Bodies \cup (IF outbound = <<>> THEN {} ELSE {EchoBody(outbound[Len(outbound)].auth)})

Next ==
  \/ \E audio \in {None} \cup {Some(f) : f \in FileNames}, form \in FormTokens :
       Receive(audio, form)
  \/ Handle
  \/ \E status \in Statuses, body \in ReplyBodies : Reply(status, body)
  \/ \E msg \in PostExceptions : Raise(msg)
  \/ Finish

\* The whole model: every iteration order, every input.
Spec == Init /\ [][Next]_vars

\* The processes started under the first hash seeds, with every input.
SeedInit == Init /\ extOrder \in SeedOrderSet

SeedSpec == SeedInit /\ [][Next]_vars

\* The handler runs to its return, and the outbound call returns or raises
\* within its timeout (timeout=30, line 109).
FairSeedSpec ==
  /\ SeedSpec
  /\ WF_vars(Handle)
  /\ WF_vars(\E status \in Statuses, body \in ReplyBodies : Reply(status, body))
  /\ WF_vars(\E msg \in PostExceptions : Raise(msg))

\* 'notes.txt', 'CLIP.MP3', 'a.tar.wav', 'mp3', 'wav.txt'
OrderNames ==
  { <<"n","o","t","e","s",".","t","x","t">>,
    <<"C","L","I","P",".","M","P","3">>,
    <<"a",".","t","a","r",".","w","a","v">>,
    <<"m","p","3">>,
    <<"w","a","v",".","t","x","t">> }

OrderFormTokens == { None, Some(<<>>), Some(<<"h","f","_","F">>) }

OrderBodies == { b \in Bodies : b.raw = <<"{","\"","t","e","x","t","\"",":","\"","h","e","l","l","o","\"","}">> }

\* Every iteration order, with the requests that take each branch of the
\* checks and one outcome of each kind of the outbound call.
OrderNext ==
  \/ \E audio \in {None, Some(<<>>)} \cup {Some(f) : f \in OrderNames},
        form \in OrderFormTokens : Receive(audio, form)
  \/ Handle
  \/ \E status \in {200, 404}, body \in OrderBodies : Reply(status, body)
  \/ \E msg \in { <<"C","o","n","n","e","c","t","i","o","n"," ","a","b","o","r","t","e","d",".">> } : Raise(msg)
  \/ Finish

OrderSpec == Init /\ [][OrderNext]_vars

TypeOK ==
  /\ pc \in {"idle", "handling", "posting", "done"}
  /\ HF_TOKEN \in EnvTokens
  /\ extOrder \in ExtOrders
  /\ pc \in {"idle", "handling", "posting"} => resp = NoResp

(***************************************************************************)
(* Vocabulary of the properties.                                           *)
(***************************************************************************)
\* sub occurs in s
Contains(s, sub) ==
  \E i \in 0..(Len(s) - Len(sub)) : SubSeq(s, i + 1, i + Len(sub)) = sub

\* s begins with p
StartsWith(s, p) == Len(s) >= Len(p) /\ SubSeq(s, 1, Len(p)) = p

\* The name ends in '.' followed by an allowed extension in any letter case
\* (no extension contains a '.', so this is the text after the last '.').
HasAllowedSuffix(name) ==
  \E e \in ALLOWED_EXTENSIONS :
     /\ Len(name) > Len(e)
     /\ name[Len(name) - Len(e)] = "."
     /\ \A i \in 1..Len(e) : LowerChar(name[Len(name) - Len(e) + i]) = e[i]

\* The request carries an 'audio' file with a non-empty name.
HasNamedFile == req.audio.some /\ req.audio.v # <<>>

\* The request passes the three file checks.
PassesFileChecks == HasNamedFile /\ HasAllowedSuffix(req.audio.v)

\* Some non-empty token is configured or supplied.
CredentialResolvable == Truthy(HF_TOKEN) \/ Truthy(req.hf_token)

\* The handler has answered.
Answered == pc = "done"

\* The upstream answered with a status; the upstream answered 200 with JSON.
Replied == Answered /\ up.kind = "reply"

\* The token of the outbound call: its Authorization header without 'Bearer '.
SentToken == SubSeq(outbound[1].auth, 8, Len(outbound[1].auth))

\* 'notes.txt', 'CLIP.MP3', 'a.tar.wav'
NotesTxt == <<"n","o","t","e","s",".","t","x","t">>

ClipUpper == <<"C","L","I","P",".","M","P","3">>

(***************************************************************************)
(* C1.  A named file whose name has no '.' or whose text after the last    *)
(* '.' is, in lower case, outside the allowed set is answered 400 with     *)
(* success=false and no outbound call is ever issued for it; a name whose  *)
(* last suffix is allowed in any letter case is never answered with the    *)
(* file-type error.                                                        *)
(***************************************************************************)
C1_ExtensionCheck ==
  HasNamedFile =>
    IF HasAllowedSuffix(req.audio.v)
    THEN Answered => ~StartsWith(resp.error, FileTypePrefix)
    ELSE /\ outbound = <<>>
         /\ pc # "posting"
         /\ Answered => resp.status = 400 /\ ~resp.success

C1_Witness ==
  /\ Answered
  /\ req.audio.v = NotesTxt
  /\ resp.status = 400
  /\ StartsWith(resp.error, FileTypePrefix)

(***************************************************************************)
(* C2.  A request that passes the file checks makes exactly one outbound   *)
(* POST when a credential is resolvable and none when it is not; there is  *)
(* never a second one, whatever the first one's outcome.                   *)
(***************************************************************************)
C2_SingleOutboundCall ==
  /\ Len(outbound) <= 1
  /\ (PassesFileChecks /\ pc \in {"posting", "done"}) =>
        Len(outbound) = IF CredentialResolvable THEN 1 ELSE 0

C2_Witness ==
  /\ Answered
  /\ up.kind = "raise"
  /\ PassesFileChecks
  /\ Len(outbound) = 1

(***************************************************************************)
(* C3.  The bearer token of the outbound call is the configured HF_TOKEN   *)
(* whenever that is non-empty, even when the request supplies another      *)
(* hf_token; it is the request's hf_token only when HF_TOKEN is absent or  *)
(* empty; with neither, the answer is 400, success=false, and an error     *)
(* beginning 'Hugging Face token required'.                                *)
(***************************************************************************)
C3_CredentialResolution ==
  /\ outbound # <<>> =>
       /\ SentToken # <<>>
       /\ Truthy(HF_TOKEN) => SentToken = HF_TOKEN.v
       /\ ~Truthy(HF_TOKEN) => req.hf_token.some /\ SentToken = req.hf_token.v
  /\ (Answered /\ PassesFileChecks /\ ~CredentialResolvable) =>
       /\ resp.status = 400
       /\ ~resp.success
       /\ StartsWith(resp.error, <<"H","u","g","g","i","n","g"," ","F","a","c","e"," ","t","o","k","e","n"," ","r","e","q","u","i","r","e","d">>)
       /\ outbound = <<>>

C3_Witness ==
  /\ outbound # <<>>
  /\ Truthy(HF_TOKEN)
  /\ Truthy(req.hf_token)
  /\ req.hf_token.v # HF_TOKEN.v
  /\ SentToken = HF_TOKEN.v

(***************************************************************************)
(* C4.  On an upstream 200 with a decodable body the returned text is: the *)
(* 'text' field of an object that has one; the 'text' field of the first   *)
(* element of a non-empty sequence when that element is an object that has *)
(* one; the string form of the first element when it is not an object; and *)
(* the empty string for every other shape.                                 *)
(***************************************************************************)
C4_ExpectedText(v) ==
  CASE v.k = "dict" /\ "text" \in DOMAIN v.d -> v.d["text"]
    [] v.k = "list" /\ v.items # <<>> /\ v.items[1].k = "dict"
         /\ "text" \in DOMAIN v.items[1].d -> v.items[1].d["text"]
    [] v.k = "list" /\ v.items # <<>> /\ v.items[1].k # "dict" ->
         JStr(PyStr(v.items[1]))
    [] OTHER -> JStr(<<>>)

C4_Normalization ==
  (Replied /\ up.status = 200 /\ up.body.ok) =>
    /\ resp.success
    /\ resp.text = C4_ExpectedText(up.body.val)
    /\ up.body.raw = <<"{","\"","t","e","x","t","\"",":","\"","h","e","l","l","o","\"","}">> => resp.text = JStr(<<"h","e","l","l","o">>)
    /\ up.body.raw = <<"[","{","\"","t","e","x","t","\"",":","\"","h","i","\"","}","]">> => resp.text = JStr(<<"h","i">>)
    /\ up.body.raw = <<"[","\"","r","a","w","\"","]">> => resp.text = JStr(<<"r","a","w">>)
    /\ up.body.raw = <<"[","-","1","2","]">> => resp.text = JStr(<<"-","1","2">>)
    /\ up.body.raw = <<"[","n","u","l","l","]">> => resp.text = JStr(<<"N","o","n","e">>)
    /\ up.body.raw \in {<<"{","}">>, <<"[","]">>, <<"\"","b","a","r","e","\"">>, <<"5">>, <<"n","u","l","l">>, <<"[","{","\"","e","r","r","o","r","\"",":","\"","x","\"","}","]">>}
         => resp.text = JStr(<<>>)

C4_Witness ==
  /\ Replied
  /\ up.status = 200
  /\ up.body.raw = <<"[","\"","r","a","w","\"","]">>
  /\ resp.text = JStr(<<"r","a","w">>)

(***************************************************************************)
(* C5.  Every answer carries exactly one of the keys 'text' and 'error':   *)
(* success=true exactly when 'text' is there and 'error' is not, and       *)
(* success=false exactly when 'error' is there and 'text' is not.          *)
(***************************************************************************)
C5_TextXorError ==
  Answered =>
    /\ "success" \in resp.keys
    /\ ("text" \in resp.keys) # ("error" \in resp.keys)
    /\ resp.success <=> ("text" \in resp.keys /\ "error" \notin resp.keys)
    /\ ~resp.success <=> ("error" \in resp.keys /\ "text" \notin resp.keys)

C5_Witness ==
  /\ Replied
  /\ up.status = 200
  /\ ~up.body.ok
  /\ "error" \in resp.keys
  /\ "text" \notin resp.keys

(***************************************************************************)
(* C6.  An upstream answer with a status other than 200 is answered with   *)
(* success=false and that same status; the error is the fixed text for 401 *)
(* and for 503 and the upstream body verbatim for every other status.      *)
(***************************************************************************)
C6_UpstreamErrorMapping ==
  (Replied /\ up.status # 200) =>
    /\ ~resp.success
    /\ resp.status = up.status
    /\ up.status = 401 => resp.error = InvalidTokenMsg
    /\ up.status = 503 => resp.error = ModelLoadingMsg
    /\ up.status \notin {401, 503} => resp.error = up.body.raw

C6_Witness ==
  /\ Replied
  /\ up.status = 404
  /\ up.body.raw = <<"{","\"","e","r","r","o","r","\"",":","\"","x","\"","}">>
  /\ resp.status = 404
  /\ resp.error = up.body.raw

(***************************************************************************)
(* C7.  As stated: on an upstream 401 the error message never contains the *)
(* token the call was sent with.                                           *)
(***************************************************************************)
C7_TokenNeverInMessage ==
  (Replied /\ up.status = 401) => ~Contains(resp.error, SentToken)

(***************************************************************************)
(* C7, amended.  On an upstream 401 the error message is the fixed text    *)
(* 'Invalid Hugging Face token' whatever the token and whatever the        *)
(* upstream body, also a body that repeats the Authorization header: it    *)
(* contains the token only when the token is itself a piece of that fixed  *)
(* text (such as 'token').                                                 *)
(***************************************************************************)
C7_FixedMessageOn401 ==
  (Replied /\ up.status = 401) =>
    /\ resp.error = InvalidTokenMsg
    /\ ~Contains(InvalidTokenMsg, SentToken) => ~Contains(resp.error, SentToken)

C7_Witness ==
  /\ Replied
  /\ up.status = 401
  /\ up.body = EchoBody(outbound[1].auth)
  /\ ~Contains(InvalidTokenMsg, SentToken)
  /\ Contains(up.body.raw, SentToken)
  /\ ~Contains(resp.error, SentToken)

\* What the handler answers when the call raised or the body was not JSON.
ExceptionAnswer ==
  /\ (Answered /\ up.kind = "raise") =>
       resp.status = 500 /\ ~resp.success /\ resp.error = up.exc
  /\ (Replied /\ up.status = 200 /\ ~up.body.ok) =>
       resp.status = 500 /\ ~resp.success /\ resp.error = up.body.err
  /\ up.kind # "none" => Answered /\ resp # NoResp

(***************************************************************************)
(* C8.  An exception of the outbound call (timeout, connection failure)    *)
(* and an upstream 200 whose body is not JSON are caught: the answer is    *)
(* 500, success=false, with the exception's message as the error; and a    *)
(* request that is being handled always ends with an answer.               *)
(***************************************************************************)
C8_ExceptionsAnswered500 ==
  /\ []ExceptionAnswer
  /\ (pc \in {"handling", "posting"}) ~> (Answered /\ resp # NoResp)

C8_Witness ==
  /\ Answered
  /\ up.kind = "raise"
  /\ up.exc = <<"C","o","n","n","e","c","t","i","o","n"," ","a","b","o","r","t","e","d",".">>
  /\ resp.status = 500
  /\ resp.error = up.exc

(***************************************************************************)
(* C9.  The checks fail fast in the order missing file, empty filename,    *)
(* disallowed extension, unresolvable credential: the first failing one    *)
(* alone decides the 400 answer, and no outbound call is made.             *)
(***************************************************************************)
C9_FirstFailingCheck ==
  Answered =>
    /\ ~req.audio.some =>
         resp.status = 400 /\ resp.error = NoAudioMsg /\ outbound = <<>>
    /\ (req.audio.some /\ req.audio.v = <<>>) =>
         resp.status = 400 /\ resp.error = NoFileMsg /\ outbound = <<>>
    /\ (HasNamedFile /\ ~HasAllowedSuffix(req.audio.v)) =>
         /\ resp.status = 400
         /\ StartsWith(resp.error, FileTypePrefix)
         /\ outbound = <<>>
    /\ (PassesFileChecks /\ ~CredentialResolvable) =>
         resp.status = 400 /\ resp.error = TokenRequiredMsg /\ outbound = <<>>

C9_Witness ==
  /\ Answered
  /\ req.audio.v = NotesTxt
  /\ ~CredentialResolvable
  /\ StartsWith(resp.error, FileTypePrefix)
  /\ resp.error # TokenRequiredMsg

(***************************************************************************)
(* C10.  As stated: the answer's status is 200 exactly when success=true,  *)
(* and every success=false answer has a status of 400 or above.            *)
(***************************************************************************)
C10_FailureHasErrorStatus ==
  Answered =>
    /\ resp.status = 200 <=> resp.success
    /\ ~resp.success => resp.status >= 400
====
